---- MODULE Spec2Model ----
(***************************************************************************)
(* A model of jadx-context-builder.py: the class index built over the      *)
(* decompiled tree, the package filter, the token estimate and the         *)
(* budgeted breadth-first closure of JadxContextGenerator.generate_context,*)
(* driven by main.                                                         *)
(*                                                                         *)
(* Text is modelled at the level the code inspects it.  A class name, a    *)
(* package and a glob pattern are sequences of one-character strings, so   *)
(* that fnmatch, the substring test of find_class_file and the splitting   *)
(* at dots are computed and not assumed.  A file path is the sequence of   *)
(* its segments below output_dir, without the .java suffix.  A file's      *)
(* content is the record of what the regular expressions of the program    *)
(* read from it: the extends clause, the implements list, the dotted names *)
(* in the order re.findall reports them, and the three counts              *)
(* calculate_tokens takes of its normalised text.                          *)
(***************************************************************************)
EXTENDS Naturals, Integers, Sequences, FiniteSets, TLC

VARIABLES
    files,               \* the decompiled tree: file path -> content
    scan_order,          \* the order in which the file system lists the tree
    target_class,        \* args.target_class
    whitelist,           \* args.whitelist
    blacklist,           \* args.blacklist
    pc,                  \* position of main
    index_db,            \* TRUE while the file jadx_index.db exists
    class_index,         \* table class_index: class_name -> [file_path, package]
    classes_to_process,  \* generate_context: the queue
    processed_classes,   \* generate_context: the visited set
    context_parts,       \* generate_context: the appended bodies, in order
    total_tokens,        \* generate_context: the running total
    traced,              \* the class names trace_usage was called with, in order
    reported,            \* the token count main prints, -1 before it prints
    twin,                \* a second generate_context run on the same inputs
    started,             \* TRUE once main has called generate_context
    raised,              \* TRUE once an exception has reached main
    parity               \* flips at every iteration of the loop

vars == <<files, scan_order, target_class, whitelist, blacklist, pc, index_db, class_index,
          classes_to_process, processed_classes, context_parts, total_tokens,
          traced, reported, twin, started, raised, parity>>

inputs == <<files, scan_order, target_class, whitelist, blacklist>>

----------------------------------------------------------------------------
(* Program constants and bounds *)

MAX_TOKENS == 100000

\* The largest number of files of a decompiled tree.
MaxFiles == 4

\* The longest whitelist or blacklist handed to the package filter alone.
MaxPatterns == 2

----------------------------------------------------------------------------
(* Sequences of characters *)

Range(s) == {s[i] : i \in 1..Len(s)}

\* str.lower on the letters the names of the model use.
lower(c) ==
    CASE c = "A" -> "a"
      [] c = "B" -> "b"
      [] c = "C" -> "c"
      [] c = "D" -> "d"
      [] OTHER -> c

Lower(s) == [i \in 1..Len(s) |-> lower(s[i])]

\* s in t, for strings
IsSubstring(s, t) ==
    \E i \in 0..(Len(t) - Len(s)) : SubSeq(t, i + 1, i + Len(s)) = s

\* The positions of the dots of a name.
Dots(name) == {i \in 1..Len(name) : name[i] = "."}

Max(S) == CHOOSE x \in S : \A y \in S : y <= x

\* '.'.join(class_name.split('.')[:-1])
PackageOf(class_name) ==
    IF Dots(class_name) = {} THEN <<>>
    ELSE SubSeq(class_name, 1, Max(Dots(class_name)) - 1)

\* fnmatch.fnmatch on a POSIX host (normcase is the identity): * matches any
\* run of characters, dots included, ? any one character, and any other
\* character itself.  Patterns with a [seq] class are not drawn.
RECURSIVE fnmatch(_, _)
fnmatch(name, pat) ==
    IF pat = <<>> THEN name = <<>>
    ELSE IF Head(pat) = "*"
         THEN \/ fnmatch(name, Tail(pat))
              \/ name # <<>> /\ fnmatch(Tail(name), pat)
    ELSE IF Head(pat) = "?"
         THEN name # <<>> /\ fnmatch(Tail(name), Tail(pat))
    ELSE name # <<>> /\ Head(name) = Head(pat) /\ fnmatch(Tail(name), Tail(pat))

----------------------------------------------------------------------------
(* Paths *)

segSources == <<"s", "o", "u", "r", "c", "e", "s">>
segSrc == <<"s", "r", "c">>
segMain == <<"m", "a", "i", "n">>
segJava == <<"j", "a", "v", "a">>

\* The candidate roots of _build_class_index and find_class_file, as paths
\* below output_dir, in the order they are probed.
search_paths == << <<segSources>>, <<segSrc, segMain, segJava>>, <<>> >>

IsUnder(path, root) ==
    Len(path) > Len(root) /\ SubSeq(path, 1, Len(root)) = root

\* file_path.relative_to(search_path)
RelativeTo(path, root) == SubSeq(path, Len(root) + 1, Len(path))

\* str(relative_path.with_suffix('')).replace(os.sep, '.')
RECURSIVE JoinDots(_)
JoinDots(segs) ==
    IF segs = <<>> THEN <<>>
    ELSE IF Len(segs) = 1 THEN segs[1]
    ELSE segs[1] \o <<".">> \o JoinDots(Tail(segs))

DerivedName(path, root) == JoinDots(RelativeTo(path, root))

----------------------------------------------------------------------------
(* File contents *)

\* The value find_class_file returns for a class it does not find.
NoFile == <<>>

\* A file's content, as the program reads it: whether open/read succeeds, the
\* capture of the first extends clause, the split and stripped capture of the
\* first implements clause, the dotted names in re.findall's order, and the
\* numbers of word-or-symbol tokens, of brackets and of whitespace runs of
\* the text optimize_code_tokens makes of it.
Cls(ext, impl, refs, w, b, s) ==
    [readable |-> TRUE, extends |-> ext, implements |-> impl, refs |-> refs,
     words |-> w, brackets |-> b, spaces |-> s]

Unreadable == [Cls(<<>>, <<>>, <<>>, 0, 0, 0) EXCEPT !.readable = FALSE]

\* Bodies of 12, 1200, 40000, 50000 and 108000 estimated tokens.
Small(ext, impl, refs) == Cls(ext, impl, refs, 6, 2, 2)
Medium(ext, impl, refs) == Cls(ext, impl, refs, 700, 100, 200)
Big(ext, impl, refs) == Cls(ext, impl, refs, 25000, 4000, 4334)
Large(ext, impl, refs) == Cls(ext, impl, refs, 30000, 5000, 6667)
Huge(ext, impl, refs) == Cls(ext, impl, refs, 60000, 10000, 20000)

nA == <<"A">>
nB == <<"B">>
nC == <<"C">>
nD == <<"D">>
pA == <<"p", ".", "A">>
pB == <<"p", ".", "B">>
pC == <<"p", ".", "C">>
pD == <<"p", ".", "D">>
qB == <<"q", ".", "B">>

fSrcPA == <<segSources, <<"p">>, nA>>
fSrcPB == <<segSources, <<"p">>, nB>>
fSrcPC == <<segSources, <<"p">>, nC>>
fSrcPD == <<segSources, <<"p">>, nD>>
fSrcQB == <<segSources, <<"q">>, nB>>
fMainPA == <<segSrc, segMain, segJava, <<"p">>, nA>>
fMainPB == <<segSrc, segMain, segJava, <<"p">>, nB>>
fRootPA == <<<<"p">>, nA>>

\* The orders in which Path.rglob("*.java") may report the files of a tree:
\* that of the directory listing, here one order and its reverse.
ScanOrder ==
    <<fSrcPA, fSrcPB, fSrcPC, fSrcPD, fSrcQB, fMainPA, fMainPB, fRootPA>>

Reverse(s) == [i \in 1..Len(s) |-> s[Len(s) + 1 - i]]

ScanOrders == {ScanOrder, Reverse(ScanOrder)}

\* A extends B, B implements C, D: simple names, one package.
TreeHierarchy ==
    (fSrcPA :> Small(<<nB>>, <<>>, <<>>))
    @@ (fSrcPB :> Small(<<>>, <<nC, nD>>, <<>>))
    @@ (fSrcPC :> Small(<<>>, <<>>, <<>>))
    @@ (fSrcPD :> Small(<<>>, <<>>, <<>>))

\* A cyclic reference graph over fully-qualified names, with a self-reference
\* and a name found twice in one file.
TreeCyclic ==
    (fSrcPA :> Small(<<>>, <<>>, <<pB, pC, pB>>))
    @@ (fSrcPB :> Small(<<pA>>, <<>>, <<pA>>))
    @@ (fSrcPC :> Small(<<>>, <<pD>>, <<pC, pB, pA, pC>>))
    @@ (fSrcPD :> Unreadable)

\* A extends B, where B lives in package q and is imported by its qualified name.
TreePackages ==
    (fSrcPA :> Small(<<nB>>, <<>>, <<qB>>))
    @@ (fSrcQB :> Small(<<>>, <<>>, <<pC>>))
    @@ (fSrcPC :> Small(<<>>, <<nD>>, <<>>))
    @@ (fSrcPD :> Small(<<>>, <<>>, <<>>))

\* Bodies that fill the budget.
TreeBudget ==
    (fSrcPA :> Large(<<>>, <<>>, <<pB, pC>>))
    @@ (fSrcPB :> Large(<<>>, <<>>, <<pD>>))
    @@ (fSrcPC :> Medium(<<>>, <<>>, <<pD>>))
    @@ (fSrcPD :> Small(<<>>, <<>>, <<>>))

\* A class imported by its qualified name and asked for by its simple name.
TreeAlias ==
    (fSrcPA :> Big(<<>>, <<>>, <<pC>>))
    @@ (fSrcPC :> Small(<<>>, <<>>, <<pA, pD>>))
    @@ (fSrcPD :> Big(<<>>, <<>>, <<>>))

\* A target larger than the budget.
TreeHuge ==
    (fSrcPA :> Huge(<<pB>>, <<>>, <<pB>>))
    @@ (fSrcPB :> Small(<<>>, <<>>, <<>>))

\* One class name under each of the three candidate roots.
TreeRoots ==
    (fSrcPA :> Small(<<>>, <<>>, <<pB>>))
    @@ (fMainPA :> Medium(<<>>, <<>>, <<pB>>))
    @@ (fRootPA :> Large(<<>>, <<>>, <<pB>>))
    @@ (fSrcPB :> Small(<<>>, <<>>, <<>>))
    @@ (fMainPB :> Medium(<<>>, <<>>, <<>>))

\* Files that cannot be read, the target's among them.
TreeUnreadable ==
    (fSrcPA :> Unreadable)
    @@ (fSrcPB :> Small(<<pA>>, <<>>, <<pC, pA>>))
    @@ (fSrcPC :> Small(<<>>, <<>>, <<pA, pD>>))

\* A class above the budget and a file that cannot be read, each reached
\* from classes that fit.
TreeRefused ==
    (fSrcPA :> Medium(<<pC>>, <<>>, <<pB, pD>>))
    @@ (fSrcPB :> Huge(<<>>, <<>>, <<>>))
    @@ (fSrcPC :> Small(<<>>, <<>>, <<pD>>))
    @@ (fSrcPD :> Unreadable)

Trees ==
    {TreeHierarchy, TreeCyclic, TreePackages, TreeBudget, TreeAlias, TreeHuge,
     TreeRoots, TreeUnreadable, TreeRefused}

Restrict(f, S) == [x \in S |-> f[x]]

\* What jadx may leave in output_dir: a tree above with any of its files
\* missing, of at most MaxFiles files; none at all when decompilation failed.
Corpora ==
    UNION {{Restrict(t, S) :
                S \in {X \in SUBSET DOMAIN t : Cardinality(X) <= MaxFiles}} :
           t \in Trees}

TargetClasses == {nA, pA, pB}
Whitelists == {<<>>, << <<"p", ".", "*">> >>}
Blacklists == {<<>>, << <<"q", "*">> >>}

----------------------------------------------------------------------------
(* The class index *)

\* Path(search_path).rglob("*.java") over the tree fs
rglob(root, fs) ==
    LET Found(path) == path \in DOMAIN fs /\ IsUnder(path, root)
    IN SelectSeq(scan_order, Found)

\* os.path.exists(search_path): output_dir itself was made by setup_jadx, a
\* directory below it exists when jadx wrote a file into it.
PathExists(root, fs) == root = <<>> \/ \E path \in DOMAIN fs : IsUnder(path, root)

\* The rows _build_class_index inserts for one root, in order.
RowsOf(root, fs) ==
    LET found == rglob(root, fs)
    IN [i \in 1..Len(found) |->
            [class_name |-> DerivedName(found[i], root),
             file_path |-> found[i],
             package |-> PackageOf(DerivedName(found[i], root))]]

\* Every row _build_class_index inserts, in order: root by root.
RECURSIVE InsertedRows(_, _)
InsertedRows(roots, fs) ==
    IF roots = <<>> THEN <<>>
    ELSE (IF PathExists(Head(roots), fs) THEN RowsOf(Head(roots), fs) ELSE <<>>)
         \o InsertedRows(Tail(roots), fs)

\* INSERT OR IGNORE in place of INSERT OR REPLACE: the first row of a name stays.
InsertOrIgnore(table, row) ==
    [n \in DOMAIN table \cup {row.class_name} |->
        IF n \in DOMAIN table THEN table[n]
        ELSE [file_path |-> row.file_path, package |-> row.package]]

\* INSERT OR REPLACE INTO class_index: class_name is the primary key.
InsertOrReplace(table, row) ==
    [n \in DOMAIN table \cup {row.class_name} |->
        IF n = row.class_name
        THEN [file_path |-> row.file_path, package |-> row.package]
        ELSE table[n]]

RECURSIVE InsertAll(_, _)
InsertAll(table, rows) ==
    IF rows = <<>> THEN table
    ELSE InsertAll(InsertOrReplace(table, Head(rows)), Tail(rows))

\* The table a fresh database holds.
EmptyTable == <<>>

build_class_index(fs) == InsertAll(EmptyTable, InsertedRows(search_paths, fs))

\* The files find_class_file tries when the table has no row, in order, each
\* with the class name its path gives below the root it was found under.
RECURSIVE Candidates(_, _)
Candidates(roots, fs) ==
    IF roots = <<>> THEN <<>>
    ELSE (IF PathExists(Head(roots), fs) THEN RowsOf(Head(roots), fs) ELSE <<>>)
         \o Candidates(Tail(roots), fs)

find_class_file(class_name) ==
    IF class_name \in DOMAIN class_index
    THEN class_index[class_name].file_path
    ELSE LET cands == Candidates(search_paths, files)
             hits == {i \in 1..Len(cands) :
                        IsSubstring(Lower(class_name), Lower(cands[i].class_name))}
         IN IF hits = {} THEN NoFile
            ELSE cands[CHOOSE i \in hits : \A j \in hits : i <= j].file_path

----------------------------------------------------------------------------
(* Content, normalisation and the token estimate *)

\* The empty string get_class_content returns for a class it cannot read.
EmptyContent == [src |-> NoFile]

\* The content of a file taken without regard to whether it could be read.
get_class_content_unchecked(class_name) ==
    LET class_file == find_class_file(class_name)
    IN IF class_file = NoFile THEN EmptyContent ELSE [src |-> class_file]

get_class_content(class_name) ==
    LET class_file == find_class_file(class_name)
    IN IF class_file = NoFile THEN EmptyContent
       ELSE IF ~files[class_file].readable THEN EmptyContent
       ELSE [src |-> class_file]

\* The normalised text of a file's content: the file it came from and the
\* three counts calculate_tokens takes of it.
optimize_code_tokens(content) ==
    [src |-> content.src,
     words |-> files[content.src].words,
     brackets |-> files[content.src].brackets,
     spaces |-> files[content.src].spaces]

\* int((len(words) + special_tokens + whitespace) * 1.2); the float product
\* truncates to the integer quotient for every count below 400000.
calculate_tokens(text) ==
    ((text.words + text.brackets + text.spaces) * 12) \div 10

RECURSIVE SumOf(_, _)
SumOf(parts, field) ==
    IF parts = <<>> THEN 0 ELSE parts[1][field] + SumOf(Tail(parts), field)

\* "\n\n".join(context_parts): the counts add up, and the delimiters add one
\* whitespace run wherever a run of them is not continued from the delimiter
\* before (a normalised body is stripped, so it neither starts nor ends with
\* whitespace; an empty body lets two delimiters run together).
JoinParts(parts) ==
    [words |-> SumOf(parts, "words"),
     brackets |-> SumOf(parts, "brackets"),
     spaces |-> SumOf(parts, "spaces")
                + Cardinality({i \in 1..(Len(parts) - 1) :
                                 i = 1 \/ parts[i].words > 0})]

----------------------------------------------------------------------------
(* The package filter *)

RECURSIVE AnyMatch(_, _)
AnyMatch(package, patterns) ==
    IF patterns = <<>> THEN FALSE
    ELSE IF fnmatch(package, Head(patterns)) THEN TRUE
    ELSE AnyMatch(package, Tail(patterns))

\* The whitelist consulted before the blacklist.
matches_whitelist_first(package, white, black) ==
    IF AnyMatch(package, white) THEN TRUE
    ELSE IF AnyMatch(package, black) THEN FALSE
    ELSE Len(white) = 0

matches_package_filter(package, white, black) ==
    IF AnyMatch(package, black) THEN FALSE
    ELSE IF AnyMatch(package, white) THEN TRUE
    ELSE Len(white) = 0

----------------------------------------------------------------------------
(* The structural extractor *)

\* get_class_hierarchy: empty when the file is not found or cannot be read.
get_class_hierarchy(class_name) ==
    LET class_file == find_class_file(class_name)
        found == class_file # NoFile /\ files[class_file].readable
    IN [superclasses |-> IF found THEN files[class_file].extends ELSE <<>>,
        interfaces |-> IF found THEN files[class_file].implements ELSE <<>>,
        referenced_classes |-> IF found THEN Range(files[class_file].refs) ELSE {},
        traced |-> found]

\* The orders in which iterating a Python set of strings can yield its
\* elements: any, since str hashes are salted per process.
SetOrders(S) ==
    {o \in [1..Cardinality(S) -> S] : \A i, j \in DOMAIN o : i # j => o[i] # o[j]}

----------------------------------------------------------------------------
(* generate_context *)

\* The locals of one generate_context call.
Entry(target) ==
    [queue |-> <<target>>, processed |-> {}, parts |-> <<>>, total |-> 0,
     traced |-> <<>>]

NotEntered ==
    [queue |-> <<>>, processed |-> {}, parts |-> <<>>, total |-> 0,
     traced |-> <<>>]

Trav ==
    [queue |-> classes_to_process, processed |-> processed_classes,
     parts |-> context_parts, total |-> total_tokens, traced |-> traced]

\* while classes_to_process and total_tokens < self.MAX_TOKENS
LoopCond(st) == st.queue # <<>> /\ st.total < MAX_TOKENS

\* The budget tested before the cost of the class is added.
FitsBudgetBeforeAdding(total, tokens_needed) == total <= MAX_TOKENS

\* if total_tokens + tokens_needed <= self.MAX_TOKENS
FitsBudget(total, tokens_needed) == total + tokens_needed <= MAX_TOKENS

\* The interfaces left out of the queue.
ExpansionWithoutInterfaces(hierarchy, order) ==
    hierarchy.superclasses \o order

\* The names one appended class adds to the queue: superclasses, interfaces,
\* then the referenced classes in the order the set yields them.
Expansion(hierarchy, order) ==
    hierarchy.superclasses \o hierarchy.interfaces \o order

\* The visited-set guard left out.
NeverProcessed(st, current_class) == FALSE

\* if current_class in processed_classes: continue
AlreadyProcessed(st, current_class) == current_class \in st.processed

\* The names of an appended class pushed at the front of the queue.
AppendedDepthFirst(st, current_class, optimized_content, hierarchy, order) ==
    [queue |-> Expansion(hierarchy, order) \o Tail(st.queue),
     processed |-> st.processed \cup {current_class},
     parts |-> Append(st.parts, [cls |-> current_class] @@ optimized_content),
     total |-> st.total + calculate_tokens(optimized_content),
     traced |-> IF hierarchy.traced
                THEN Append(st.traced, current_class) ELSE st.traced]

\* The total set to the cost of the appended class, the sum so far lost.
AppendedTotalReplaced(st, current_class, optimized_content, hierarchy, order) ==
    [queue |-> Tail(st.queue) \o Expansion(hierarchy, order),
     processed |-> st.processed \cup {current_class},
     parts |-> Append(st.parts, [cls |-> current_class] @@ optimized_content),
     total |-> calculate_tokens(optimized_content),
     traced |-> IF hierarchy.traced
                THEN Append(st.traced, current_class) ELSE st.traced]

\* The branch that appends: the part, the total, the queue extended by the
\* hierarchy of the class, and processed_classes.add at the end of the body.
Appended(st, current_class, optimized_content, hierarchy, order) ==
    [queue |-> Tail(st.queue) \o Expansion(hierarchy, order),
     processed |-> st.processed \cup {current_class},
     parts |-> Append(st.parts, [cls |-> current_class] @@ optimized_content),
     total |-> st.total + calculate_tokens(optimized_content),
     traced |-> IF hierarchy.traced
                THEN Append(st.traced, current_class) ELSE st.traced]

\* The queue extended although the class was not appended.
RefusedButExpanded(st, current_class, hierarchy, order) ==
    [st EXCEPT !.queue = Tail(st.queue) \o Expansion(hierarchy, order),
               !.processed = st.processed \cup {current_class}]

\* The class that does not fit left out of processed_classes.
RefusedUnmarked(st, current_class, hierarchy, order) ==
    [st EXCEPT !.queue = Tail(st.queue)]

\* The branch that does not append: only processed_classes.add is reached.
Refused(st, current_class, hierarchy, order) ==
    [st EXCEPT !.queue = Tail(st.queue),
               !.processed = st.processed \cup {current_class}]

\* The head read and left on the queue.
Peek(st) == st

\* current_class = classes_to_process.pop(0), seen from the queue.
Pop(st) == [st EXCEPT !.queue = Tail(st.queue)]

\* if not self.matches_package_filter(current_class, whitelist, blacklist)
PassesFilter(current_class) ==
    matches_package_filter(current_class, whitelist, blacklist)

\* One iteration of the loop, from the state st of its locals; order is the
\* order in which the set of referenced classes is iterated.
LoopBody(st, order) ==
    LET current_class == Head(st.queue)
        popped == Pop(st)
        class_content == get_class_content(current_class)
        optimized_content == optimize_code_tokens(class_content)
        tokens_needed == calculate_tokens(optimized_content)
        hierarchy == get_class_hierarchy(current_class)
    IN IF AlreadyProcessed(st, current_class) THEN popped
       ELSE IF ~PassesFilter(current_class) THEN popped
       ELSE IF class_content = EmptyContent THEN popped
       ELSE IF FitsBudget(st.total, tokens_needed)
       THEN Appended(st, current_class, optimized_content, hierarchy, order)
       ELSE Refused(st, current_class, hierarchy, order)

\* The iteration orders of the set the next iteration may extend the queue by.
OrdersAt(st) ==
    SetOrders(get_class_hierarchy(Head(st.queue)).referenced_classes)

----------------------------------------------------------------------------
(* main *)

Init ==
    /\ files \in Corpora
    /\ scan_order \in ScanOrders
    /\ target_class \in TargetClasses
    /\ whitelist \in Whitelists
    /\ blacklist \in Blacklists
    /\ pc = "construct"
    /\ index_db \in BOOLEAN
    /\ class_index = EmptyTable
    /\ classes_to_process = NotEntered.queue
    /\ processed_classes = NotEntered.processed
    /\ context_parts = NotEntered.parts
    /\ total_tokens = NotEntered.total
    /\ traced = NotEntered.traced
    /\ reported = -1
    /\ twin = NotEntered
    /\ started = FALSE
    /\ raised = FALSE
    /\ parity = FALSE

\* JadxContextGenerator(...): setup_index_db removes a jadx_index.db left by
\* an earlier run, opens a new one and creates its tables.  When one of these
\* fails the constructor raises: the old file is still there (os.remove
\* failed), or no file is (connect failed), or the new one is (a CREATE
\* failed); main has no generator then, and its finally clause cleans nothing.
Construct ==
    /\ pc = "construct"
    /\ \/ /\ index_db' = TRUE
          /\ pc' = "setup"
          /\ UNCHANGED raised
       \/ /\ index_db' \in {index_db, FALSE, TRUE}
          /\ pc' = "done"
          /\ raised' = TRUE
    /\ UNCHANGED <<inputs, parity, class_index, classes_to_process, processed_classes,
                   context_parts, total_tokens, traced, reported, twin, started>>

\* The result of setup_jadx ignored by main.
SetupJadxResultIgnored ==
    /\ pc = "setup"
    /\ pc' = "generate"
    /\ class_index' = build_class_index(files)
    /\ UNCHANGED <<inputs, parity, index_db, classes_to_process, processed_classes,
                   context_parts, total_tokens, traced, reported, twin, started,
                   raised>>

\* setup_jadx: False when jadx left no .java file or when an exception was
\* caught on the way, else the index is built.
SetupJadx ==
    /\ pc = "setup"
    /\ \/ /\ DOMAIN files = {}
          /\ pc' = "cleanup"
          /\ UNCHANGED class_index
       \/ /\ DOMAIN files # {}
          /\ pc' = "generate"
          /\ class_index' = build_class_index(files)
       \/ /\ DOMAIN files # {}
          /\ pc' = "cleanup"
          /\ UNCHANGED class_index
    /\ UNCHANGED <<inputs, parity, index_db, classes_to_process, processed_classes,
                   context_parts, total_tokens, traced, reported, twin, started, raised>>

SetLocals(st) ==
    /\ classes_to_process' = st.queue
    /\ processed_classes' = st.processed
    /\ context_parts' = st.parts
    /\ total_tokens' = st.total
    /\ traced' = st.traced

\* generate_context, up to its loop.
GenerateContextEnter ==
    /\ pc = "generate"
    /\ pc' = "loop"
    /\ SetLocals(Entry(target_class))
    /\ twin' = Entry(target_class)
    /\ started' = TRUE
    /\ UNCHANGED <<inputs, parity, index_db, class_index, reported, raised>>

\* One iteration of the loop of generate_context.
LoopIteration ==
    /\ pc = "loop"
    /\ LoopCond(Trav)
    /\ \E order \in OrdersAt(Trav) : SetLocals(LoopBody(Trav, order))
    /\ parity' = ~parity
    /\ UNCHANGED <<inputs, pc, index_db, class_index, reported, twin, started, raised>>

\* The loop ends and generate_context returns the joined parts.
GenerateContextReturn ==
    /\ pc = "loop"
    /\ ~LoopCond(Trav)
    /\ pc' = "output"
    /\ UNCHANGED <<inputs, parity, index_db, class_index, classes_to_process,
                   processed_classes, context_parts, total_tokens, traced,
                   reported, twin, started, raised>>

\* main writes or prints the context and reports calculate_tokens(context).
MainOutput ==
    /\ pc = "output"
    /\ reported' = calculate_tokens(JoinParts(context_parts))
    /\ pc' = "cleanup"
    /\ UNCHANGED <<inputs, parity, index_db, class_index, classes_to_process,
                   processed_classes, context_parts, total_tokens, traced, twin, started,
                   raised>>

\* An exception reaches main while the generator exists: an interrupt, or the
\* output file that cannot be written.  main logs it and raises it again, and
\* the finally clause runs cleanup on the way out.
Raise ==
    /\ pc \in {"setup", "generate", "loop", "output"}
    /\ raised' = TRUE
    /\ pc' = "cleanup"
    /\ UNCHANGED <<inputs, parity, index_db, class_index, classes_to_process,
                   processed_classes, context_parts, total_tokens, traced,
                   reported, twin, started>>

\* cleanup, from main's finally clause.
Cleanup ==
    /\ pc = "cleanup"
    /\ index_db' = FALSE
    /\ class_index' = EmptyTable
    /\ pc' = "done"
    /\ UNCHANGED <<inputs, parity, classes_to_process, processed_classes,
                   context_parts, total_tokens, traced, reported, twin, started, raised>>

Next ==
    \/ Construct
    \/ SetupJadx
    \/ GenerateContextEnter
    \/ LoopIteration
    \/ GenerateContextReturn
    \/ MainOutput
    \/ Raise
    \/ Cleanup

Spec == Init /\ [][Next]_vars

\* The loop of generate_context runs on: an iteration that can be made is
\* made, and the function returns once its loop condition fails.  Nothing
\* obliges an exception to be raised.
\* The steps of Next that are iterations of the loop, and the one that is
\* the return of generate_context.
Iterates == pc = "loop" /\ LoopCond(Trav) /\ parity' = ~parity

Returns == pc = "loop" /\ ~LoopCond(Trav) /\ pc' = "output"

SpecFair ==
    /\ Init
    /\ [][Next]_vars
    /\ WF_parity(Iterates)
    /\ WF_pc(Returns)

----------------------------------------------------------------------------
(* Two runs of generate_context on the same corpus, target and filters *)

\* Each run that has not left its loop makes one iteration.
PairIteration ==
    /\ pc = "loop"
    /\ LoopCond(Trav) \/ LoopCond(twin)
    /\ IF LoopCond(Trav)
       THEN \E order \in OrdersAt(Trav) : SetLocals(LoopBody(Trav, order))
       ELSE SetLocals(Trav)
    /\ IF LoopCond(twin)
       THEN \E order \in OrdersAt(twin) : twin' = LoopBody(twin, order)
       ELSE twin' = twin
    /\ parity' = ~parity
    /\ UNCHANGED <<inputs, pc, index_db, class_index, reported, started,
                   raised>>

\* Both runs have left their loops.
PairReturn ==
    /\ pc = "loop"
    /\ ~LoopCond(Trav)
    /\ ~LoopCond(twin)
    /\ pc' = "output"
    /\ UNCHANGED <<inputs, parity, index_db, class_index, classes_to_process,
                   processed_classes, context_parts, total_tokens, traced,
                   reported, twin, started, raised>>

NextTwin ==
    \/ Construct
    \/ SetupJadx
    \/ GenerateContextEnter
    \/ PairIteration
    \/ PairReturn
    \/ MainOutput
    \/ Raise
    \/ Cleanup

SpecTwin == Init /\ [][NextTwin]_vars

----------------------------------------------------------------------------
(* The package filter on its own: target_class holds the package argument *)

Patterns ==
    {<<"p", ".", "*">>, <<"q", "*">>, <<"*">>, <<"?", ".", "b">>}

Packages == {<<>>, <<"p">>, <<"q">>, <<"p", ".", "b">>, <<"q", ".", "b">>}

PatternLists == UNION {[1..n -> Patterns] : n \in 0..MaxPatterns}

InitFilter ==
    /\ files = <<>>
    /\ scan_order = ScanOrder
    /\ target_class \in Packages
    /\ whitelist \in PatternLists
    /\ blacklist \in PatternLists
    /\ pc = "filter"
    /\ index_db = FALSE
    /\ class_index = EmptyTable
    /\ classes_to_process = NotEntered.queue
    /\ processed_classes = NotEntered.processed
    /\ context_parts = NotEntered.parts
    /\ total_tokens = NotEntered.total
    /\ traced = NotEntered.traced
    /\ reported = -1
    /\ twin = NotEntered
    /\ started = FALSE
    /\ raised = FALSE
    /\ parity = FALSE

ApplyFilter ==
    /\ pc = "filter"
    /\ pc' = IF matches_package_filter(target_class, whitelist, blacklist)
             THEN "accepted" ELSE "rejected"
    /\ UNCHANGED <<inputs, parity, index_db, class_index, classes_to_process,
                   processed_classes, context_parts, total_tokens, traced,
                   reported, twin, started, raised>>

NextFilter == ApplyFilter

SpecFilter == InitFilter /\ [][NextFilter]_vars

----------------------------------------------------------------------------
(* What the properties below speak of *)

\* The class names whose bodies were appended, in order.
AppendedNames(parts) == [i \in DOMAIN parts |-> parts[i].cls]

\* The files the appended bodies were read from, in order.
AppendedFiles(parts) == [i \in DOMAIN parts |-> parts[i].src]

\* The appended bodies as the output holds them: texts, without the names they
\* were reached by.
Bodies(parts) == [i \in DOMAIN parts |-> [f \in {"src", "words", "brackets", "spaces"} |-> parts[i][f]]]

\* The names a file's hierarchy holds.
EdgeNames(path) ==
    Range(files[path].extends) \cup Range(files[path].implements)
        \cup Range(files[path].refs)

\* The package of the class a file holds: that of its name below the first
\* candidate root the file lies under.
HomeRoot(path) ==
    search_paths[CHOOSE k \in DOMAIN search_paths :
                    /\ IsUnder(path, search_paths[k])
                    /\ \A j \in 1..(k - 1) : ~IsUnder(path, search_paths[j])]

ClassPackage(path) == PackageOf(DerivedName(path, HomeRoot(path)))

Running == pc \in {"loop", "output"}

----------------------------------------------------------------------------
(* C1: in any run of generate_context, cyclic reference graphs included, no *)
(* class name has its body appended more than once.                         *)
C1_EachNameAppendedAtMostOnce ==
    \A i, j \in DOMAIN context_parts :
        context_parts[i].cls = context_parts[j].cls => i = j

\* A finished run over a cycle: two appended classes that name each other.
C1_Witness ==
    /\ pc = "output"
    /\ \E i, j \in DOMAIN context_parts :
          /\ i # j
          /\ context_parts[i].cls \in EdgeNames(context_parts[j].src)
          /\ context_parts[j].cls \in EdgeNames(context_parts[i].src)

(* C2: in every state of the loop and at its end total_tokens <= MAX_TOKENS. *)
C2_TotalWithinBudget == total_tokens <= MAX_TOKENS

\* The appends have filled the budget to the last token.
C2_Witness == Running /\ total_tokens = MAX_TOKENS /\ Len(context_parts) >= 2

(* C3: the token count main reports for the joined output never exceeds     *)
(* MAX_TOKENS.                                                              *)
C3_ReportedWithinCeiling == reported # -1 => reported <= MAX_TOKENS

(* C4: the body of a class whose package matches a blacklist pattern is     *)
(* never appended, by whatever name the traversal reaches it.               *)
C4_BlacklistedNeverAppended ==
    \A i \in DOMAIN context_parts :
        ~AnyMatch(ClassPackage(context_parts[i].src), blacklist)

(* C5: matches_package_filter accepts exactly when no blacklist pattern     *)
(* matches the package and the whitelist is empty or one of its patterns    *)
(* matches it; a package matching both kinds of pattern is rejected.        *)
C5_FilterDecision ==
    pc \in {"accepted", "rejected"} =>
        (pc = "accepted"
            <=> /\ \A b \in Range(blacklist) : ~fnmatch(target_class, b)
                /\ \/ whitelist = <<>>
                   \/ \E w \in Range(whitelist) : fnmatch(target_class, w))

\* A package that a blacklist and a whitelist pattern both match was rejected.
C5_Witness ==
    /\ pc = "rejected"
    /\ \E b \in Range(blacklist) : fnmatch(target_class, b)
    /\ \E w \in Range(whitelist) : fnmatch(target_class, w)

\* The estimated tokens of every file of the corpus together.
RECURSIVE CorpusCost(_)
CorpusCost(paths) ==
    IF paths = {} THEN 0
    ELSE LET path == CHOOSE x \in paths : TRUE
         IN calculate_tokens(files[path]) + CorpusCost(paths \ {path})

\* The names the traversal can come to: the target, and the names in the
\* hierarchies of the appended classes.
ReachableNames ==
    {target_class} \cup UNION {EdgeNames(context_parts[i].src) : i \in DOMAIN context_parts}

(* C6: with no whitelist and no blacklist, and a budget that holds the whole *)
(* corpus with tokens to spare, a finished run has appended the body of      *)
(* every indexed, readable class it can come to from the target.             *)
C6_AllReachableAppended ==
    (/\ pc = "output"
     /\ whitelist = <<>>
     /\ blacklist = <<>>
     /\ CorpusCost(DOMAIN files) < MAX_TOKENS)
    => \A n \in ReachableNames :
          (n \in DOMAIN class_index /\ files[class_index[n].file_path].readable)
          => class_index[n].file_path \in Range(AppendedFiles(context_parts))

(* C7: two runs of generate_context on the same corpus, target, filters and *)
(* budget append the same bodies in the same order.                         *)
C7_SameOutputOrder ==
    pc = "output" => Bodies(context_parts) = Bodies(twin.parts)

(* C8: for A extends B, B implements C, D, target A, no filters and a       *)
(* budget above the whole corpus, the output is the bodies of A, B, C, D in *)
(* that order, each once.                                                   *)
C8_HierarchyScenario ==
    (/\ pc = "output"
     /\ files = TreeHierarchy
     /\ target_class = nA
     /\ whitelist = <<>>
     /\ blacklist = <<>>)
    => /\ AppendedNames(context_parts) = <<nA, nB, nC, nD>>
       /\ AppendedFiles(context_parts) = <<fSrcPA, fSrcPB, fSrcPC, fSrcPD>>

C8_Witness ==
    /\ pc = "output"
    /\ files = TreeHierarchy
    /\ target_class = nA
    /\ whitelist = <<>>
    /\ blacklist = <<>>
    /\ CorpusCost(DOMAIN files) < MAX_TOKENS
    /\ Len(context_parts) = 4

\* The probe order the claim names: sources, src/main/java, the output root.
ClaimedProbeOrder == << <<segSources>>, <<segSrc, segMain, segJava>>, <<>> >>

\* The roots, by their place in that order, under which a file gives the
\* class name.
RootsGiving(name) ==
    {k \in DOMAIN ClaimedProbeOrder :
        \E path \in DOMAIN files :
            /\ IsUnder(path, ClaimedProbeOrder[k])
            /\ DerivedName(path, ClaimedProbeOrder[k]) = name}

(* C9: after the index build every inserted class name is found by lookup,  *)
(* with the path of the last insertion for that name; a name found under    *)
(* several roots returns the path from the root latest in the probe order   *)
(* sources, src/main/java, output root.                                     *)
C9_IndexRoundTrip ==
    (pc \in {"generate", "loop", "output"}) =>
        LET rows == InsertedRows(search_paths, files)
        IN /\ \A i \in DOMAIN rows :
                LET last == Max({j \in DOMAIN rows :
                                    rows[j].class_name = rows[i].class_name})
                IN find_class_file(rows[i].class_name) = rows[last].file_path
           /\ \A path \in DOMAIN files : \A k \in DOMAIN ClaimedProbeOrder :
                (/\ IsUnder(path, ClaimedProbeOrder[k])
                 /\ k = Max(RootsGiving(DerivedName(path, ClaimedProbeOrder[k]))))
                => find_class_file(DerivedName(path, ClaimedProbeOrder[k])) = path

\* One class name was inserted from all three roots.
C9_Witness ==
    /\ pc = "loop"
    /\ RootsGiving(pA) = {1, 2, 3}
    /\ find_class_file(pA) = fRootPA

\* The head of the queue passes the filter, has content, and costs more than
\* the budget has left.
OverBudgetAtHead ==
    /\ pc = "loop"
    /\ LoopCond(Trav)
    /\ LET current_class == Head(classes_to_process)
           class_content == get_class_content(current_class)
       IN /\ current_class \notin processed_classes
          /\ matches_package_filter(current_class, whitelist, blacklist)
          /\ class_content # EmptyContent
          /\ total_tokens + calculate_tokens(optimize_code_tokens(class_content))
                > MAX_TOKENS

\* The target passes the filter, has content, and costs more than MAX_TOKENS.
TargetOverBudget ==
    LET class_content == get_class_content(target_class)
    IN /\ matches_package_filter(target_class, whitelist, blacklist)
       /\ class_content # EmptyContent
       /\ calculate_tokens(optimize_code_tokens(class_content)) > MAX_TOKENS

(* C10: an iteration whose class passes the filter and has content but does *)
(* not fit the budget leaves the output and total_tokens unchanged and      *)
(* pushes nothing onto the queue; a target that alone exceeds MAX_TOKENS    *)
(* ends the run with empty output and total_tokens = 0.                     *)
C10_OverBudgetFrame ==
    /\ [][(OverBudgetAtHead /\ pc' = "loop") =>
            /\ context_parts' = context_parts
            /\ total_tokens' = total_tokens
            /\ classes_to_process' = Tail(classes_to_process)]_vars
    /\ []((pc = "output" /\ TargetOverBudget)
            => (context_parts = <<>> /\ total_tokens = 0))

\* The run of a target above the budget has ended, the target marked
\* processed and nothing appended.
C10_Witness ==
    /\ pc = "output"
    /\ TargetOverBudget
    /\ processed_classes = {target_class}
    /\ classes_to_process = <<>>

\* The loop is about to make an iteration.
AtIteration == pc = "loop" /\ LoopCond(Trav)

\* A finished traversal that met a name without a file and a file that cannot
\* be read.
MetItemFailures ==
    /\ classes_to_process = <<>>
    /\ \E i, j \in DOMAIN context_parts :
          /\ \E n \in EdgeNames(context_parts[i].src) :
                find_class_file(n) = NoFile
          /\ \E n \in EdgeNames(context_parts[j].src) :
                /\ find_class_file(n) # NoFile
                /\ ~files[find_class_file(n)].readable

Popped == Head(classes_to_process)

\* The iteration leaves the output, the total and the rest of the queue as
\* they are, and pushes nothing.
Dropped ==
    /\ context_parts' = context_parts
    /\ total_tokens' = total_tokens
    /\ classes_to_process' = Tail(classes_to_process)

(* C12: an iteration whose popped name has no entry in the class index      *)
(* appends no content, leaves total_tokens unchanged and pushes nothing     *)
(* onto the queue; the traversal goes on with the next queued name.         *)
C12_LookupMissDropped ==
    [][(AtIteration /\ pc' = "loop" /\ Popped \notin DOMAIN class_index)
            => Dropped]_vars

\* The popped name is new, passes the filter and resolves to a file that
\* cannot be read.
UnreadableFile(class_name) ==
    /\ find_class_file(class_name) # NoFile
    /\ ~files[find_class_file(class_name)].readable

UnreadableAtHead ==
    /\ AtIteration
    /\ Popped \notin processed_classes
    /\ PassesFilter(Popped)
    /\ UnreadableFile(Popped)

(* C13: an iteration whose class file cannot be read, the target's         *)
(* included, appends no content, leaves total_tokens, the output and the   *)
(* processed set unchanged and raises nothing: the loop goes on with the   *)
(* rest of the queue, and a run whose target cannot be read returns the    *)
(* empty context.                                                          *)
C13_ReadFailureAbsorbed ==
    /\ [][(UnreadableAtHead /\ ~raised')
            => /\ Dropped
               /\ processed_classes' = processed_classes
               /\ pc' = "loop"]_vars
    /\ []((pc = "output" /\ PassesFilter(target_class)
                /\ UnreadableFile(target_class))
            => (context_parts = <<>> /\ total_tokens = 0
                /\ processed_classes = {}))

\* The traversal met a file that cannot be read and appended a class after it.
C13_Witness ==
    /\ pc = "output"
    /\ Len(context_parts) >= 2
    /\ \E n \in EdgeNames(context_parts[1].src) :
          /\ UnreadableFile(n)
          /\ PassesFilter(n)
          /\ n \notin processed_classes
          /\ n \in EdgeNames(context_parts[2].src)

(* C14: the filter decision taken for a popped class is the filter applied *)
(* to its package, the dotted name without its last segment.               *)
C14_FilterOnPackage ==
    (AtIteration /\ Popped \notin processed_classes)
        => (PassesFilter(Popped)
            <=> matches_package_filter(PackageOf(Popped), whitelist, blacklist))

\* The popped name passes the filter and its content is retrieved.
Retrievable(class_name) ==
    /\ PassesFilter(class_name)
    /\ get_class_content(class_name) # EmptyContent

(* C15: processed_classes only grows; an iteration adds the popped name to *)
(* it exactly when the name was not in it, passed the filter and had       *)
(* retrievable content, whether or not the body was appended; a name that  *)
(* is rejected or has no content is not added, so that a later pop         *)
(* evaluates it again.                                                     *)
C15_ProcessedGrowsOnRetrieval ==
    /\ [][processed_classes \subseteq processed_classes']_vars
    /\ [][(AtIteration /\ ~raised')
            => processed_classes' =
                  IF Retrievable(Popped)
                  THEN processed_classes \cup {Popped}
                  ELSE processed_classes]_vars
    /\ [][(~AtIteration) => processed_classes' = processed_classes]_vars

\* A run has ended with a name in processed_classes that was not appended,
\* and with a name it popped more than once outside processed_classes.
C15_Witness ==
    /\ pc = "output"
    /\ \E n \in processed_classes : n \notin Range(AppendedNames(context_parts))
    /\ \E n \in TargetClasses \cup {nB, nC, nD, pC, pD, qB} :
          /\ ~Retrievable(n)
          /\ n \notin processed_classes
          /\ Cardinality({i \in DOMAIN context_parts :
                            n \in EdgeNames(context_parts[i].src)}) >= 2

\* The names within k steps of the target, a step leading from a class whose
\* body was appended to a name its hierarchy holds.
RECURSIVE Within(_)
Within(k) ==
    IF k = 0 THEN {target_class}
    ELSE LET near == Within(k - 1)
         IN near \cup UNION {EdgeNames(context_parts[i].src) :
                                i \in {j \in DOMAIN context_parts :
                                          context_parts[j].cls \in near}}

\* The length of the shortest chain of appended classes from the target.
Distance(class_name) ==
    CHOOSE k \in 0..Len(context_parts) :
        /\ class_name \in Within(k)
        /\ k > 0 => class_name \notin Within(k - 1)

(* C16: bodies are appended in breadth-first order: of two appended bodies *)
(* the earlier one is no farther from the target than the later one.       *)
C16_BreadthFirstOrder ==
    \A i, j \in DOMAIN context_parts :
        i < j => /\ context_parts[i].cls \in Within(Len(context_parts))
                 /\ context_parts[j].cls \in Within(Len(context_parts))
                 /\ Distance(context_parts[i].cls) <= Distance(context_parts[j].cls)

\* Classes at distances 0, 1, 1 and 2 have been appended.
C16_Witness ==
    /\ pc = "output"
    /\ Len(context_parts) >= 4
    /\ Distance(context_parts[2].cls) = 1
    /\ Distance(context_parts[3].cls) = 1
    /\ Distance(context_parts[4].cls) = 2

(* C17: generate_context terminates on every corpus, cyclic and            *)
(* self-referential graphs included: its loop is left, and when it returns *)
(* the queue is empty or total_tokens has reached MAX_TOKENS.              *)
C17_GenerateContextTerminates ==
    /\ (pc = "loop") ~> (pc # "loop")
    /\ []((pc = "output")
            => (classes_to_process = <<>> \/ total_tokens >= MAX_TOKENS))

\* A traversal of a cyclic graph with a self-reference has returned.
C17_Witness ==
    /\ pc = "output"
    /\ classes_to_process = <<>>
    /\ \E i, j \in DOMAIN context_parts :
          /\ i # j
          /\ context_parts[i].cls \in EdgeNames(context_parts[i].src)
          /\ context_parts[i].cls \in EdgeNames(context_parts[j].src)
          /\ context_parts[j].cls \in EdgeNames(context_parts[i].src)

C19_IndexDestroyedAtExit ==
    /\ [](pc = "done" => ~index_db)
    /\ [][(pc \in {"generate", "loop"})
            => (class_index' = class_index /\ index_db' = index_db)]_vars

\* The estimated costs of the appended bodies, added up.
RECURSIVE CostOf(_)
CostOf(parts) ==
    IF parts = <<>> THEN 0
    ELSE calculate_tokens(Head(parts)) + CostOf(Tail(parts))

(* C20: at every boundary of the loop total_tokens is the sum of the       *)
(* estimated costs of the appended bodies, every appended class name is in *)
(* processed_classes, and the appended bodies are no more than the names   *)
(* in processed_classes.                                                   *)
C20_Accounting ==
    /\ total_tokens = CostOf(context_parts)
    /\ Range(AppendedNames(context_parts)) \subseteq processed_classes
    /\ Len(context_parts) <= Cardinality(processed_classes)

\* Three bodies appended, and a class processed without being appended.
C20_Witness ==
    /\ pc = "loop"
    /\ Len(context_parts) = 3
    /\ total_tokens > 1200
    /\ Cardinality(processed_classes) > 3

====
